---- MODULE Spec2Model ----
(***************************************************************************)
(* A model of packages/react-i18n/src/i18n.ts: the I18n class (translate,  *)
(* formatNumber / formatCurrency / formatPercentage, formatDate with its   *)
(* humanize styles, weekStartDay, getCurrencySymbol and its memoized       *)
(* helper).                                                                *)
(*                                                                         *)
(* JavaScript values are modelled as follows.  Every scalar (string,       *)
(* number option, boolean flag) is a TLA+ string; the value `undefined`    *)
(* is the string Undefined.  An object literal is a function from its own  *)
(* keys to values, so that "the key is absent" and "the key is present     *)
(* and holds undefined" are different objects, as they are for the spread  *)
(* operator.  An argument that may be omitted is a sequence of length 0    *)
(* (omitted) or 1.  The platform formatters and the translate primitive    *)
(* are collaborators: a call of one is modelled by the record of what it   *)
(* was called with.                                                        *)
(*                                                                         *)
(* The methods share nothing but the instance's readonly fields, the       *)
(* memoization cache and the clock, so each group of methods has a         *)
(* specification of its own: SpecNumber, SpecDate (FairSpecDate with the   *)
(* fairness of a running call), SpecWeek, SpecSymbol and SpecTranslate.    *)
(***************************************************************************)
EXTENDS FiniteSets, Integers, Sequences, TLC

VARIABLES
    ctx,        \* the I18n instance's readonly fields and its translations
    weekdays,   \* the constants module's WEEK_START_DAYS and DEFAULT_WEEK_START_DAY
    memo,       \* the cache of the memoized getCurrencySymbolLocalized
    now,        \* the wall clock, the value a `new Date()` reads
    call,       \* the public method call being served or last served
    out,        \* what that call returned or threw
    stack,      \* the frames of the formatDate call in progress, innermost last
    ret,        \* the value the frame that last returned handed to its caller
    started,    \* the clock when the formatDate call in progress was made, then
                \* when a humanizer of that call first read it
    cached      \* how the last currency-symbol call was served

vars == <<ctx, weekdays, memo, now, call, out, stack, ret, started, cached>>

-----------------------------------------------------------------------------
(* JavaScript objects *)

Undefined == "undefined"

EmptyObject == [k \in {} |-> Undefined]

\* o.k
Get(o, k) == IF k \in DOMAIN o THEN o[k] ELSE Undefined

\* {...a, ...b}
Spread(a, b) ==
    [k \in DOMAIN a \cup DOMAIN b |-> IF k \in DOMAIN b THEN b[k] ELSE a[k]]

\* the rest of a destructuring pattern: const {k1, k2, ...rest} = o
Rest(o, ks) == [k \in DOMAIN o \ ks |-> o[k]]

\* an optional object argument read with a default: `arg = {}`, `arg || {}`
OrEmpty(arg) == IF arg = <<>> THEN EmptyObject ELSE arg[1]

\* every object whose keys are among those of dom and whose entry k is in dom[k]
Objects(dom) ==
    UNION { { o \in [K -> UNION { dom[k] : k \in K }] : \A k \in K : o[k] \in dom[k] }
            : K \in SUBSET DOMAIN dom }

\* an optional argument drawn from S
Optional(S) == {<<>>} \cup { <<o>> : o \in S }

-----------------------------------------------------------------------------
(* Outcomes of a call *)

\* throw new <error>(...)
Throw(error) == [kind |-> "throw", key |-> error, args |-> <<>>]

\* new Intl.NumberFormat(locale, options).format(amount)
NumberFormat(locale, options, amount) ==
    [kind |-> "NumberFormat", key |-> locale,
     args |-> [options |-> options, value |-> amount]]

\* new Intl.DateTimeFormat(locale, options).format(date)
DateTimeFormat(locale, options, date) ==
    [kind |-> "DateTimeFormat", key |-> locale,
     args |-> [options |-> options, value |-> date]]

NoCall == [op |-> "none", args |-> <<>>]
NoOut == [kind |-> "none", key |-> "", args |-> <<>>]

-----------------------------------------------------------------------------
(* The instance *)

Locales == {"en", "fr"}
TranslationLists == { <<"dictA", "dictB">>, <<"dictB", "dictA">> }

\* an instance constructed with a locale and nothing else
BareContext ==
    [locale |-> "en",
     defaultCountry |-> Undefined,
     defaultCurrency |-> Undefined,
     defaultTimezone |-> Undefined,
     pseudolocalize |-> "false",
     translations |-> <<"dictA", "dictB">>]

-----------------------------------------------------------------------------
(* formatNumber, formatCurrency, formatPercentage *)

\* formatNumber with the spread the other way round: the entries derived from
\* `as`, `precision` and the default currency written over the caller's raw ones
formatNumberDerivedLast(amount, arg) ==
    LET o == OrEmpty(arg)
        as == Get(o, "as")
        precision == Get(o, "precision")
        options == Rest(o, {"as", "precision"})
        locale == ctx.locale
        currency == ctx.defaultCurrency
    IN  IF as = "currency" /\ currency = Undefined
                           /\ Get(options, "currency") = Undefined
        THEN Throw("MissingCurrencyCodeError")
        ELSE NumberFormat(locale,
                          Spread(options,
                                 [style |-> as,
                                  maximumFractionDigits |-> precision,
                                  currency |-> currency]),
                          amount)

formatNumber(amount, arg) ==
    LET o == OrEmpty(arg)
        as == Get(o, "as")
        precision == Get(o, "precision")
        options == Rest(o, {"as", "precision"})
        locale == ctx.locale
        currency == ctx.defaultCurrency
    IN  IF as = "currency" /\ currency = Undefined
                           /\ Get(options, "currency") = Undefined
        THEN Throw("MissingCurrencyCodeError")
        ELSE NumberFormat(locale,
                          Spread([style |-> as,
                                  maximumFractionDigits |-> precision,
                                  currency |-> currency],
                                 options),
                          amount)

formatCurrency(amount, arg) ==
    formatNumber(amount, <<Spread([as |-> "currency"], OrEmpty(arg))>>)

formatPercentage(amount, arg) ==
    formatNumber(amount, <<Spread([as |-> "percent"], OrEmpty(arg))>>)

Amounts == {1234}

\* Intl.NumberFormatOptions entries a caller may pass
RawNumberKeys ==
    [currency |-> {Undefined, "EUR"},
     style |-> {"decimal", "percent"},
     maximumFractionDigits |-> {"3"},
     useGrouping |-> {"false"}]

\* NumberFormatOptions: the raw entries plus `as` and `precision`
NumberKeys ==
    [as |-> {"number", "currency", "percent"},
     precision |-> {"2"},
     currency |-> RawNumberKeys.currency,
     style |-> RawNumberKeys.style,
     maximumFractionDigits |-> RawNumberKeys.maximumFractionDigits,
     useGrouping |-> RawNumberKeys.useGrouping]

CallFormatNumber ==
    \E amount \in Amounts, arg \in Optional(Objects(NumberKeys)) :
        /\ call' = [op |-> "formatNumber", args |-> <<amount, arg>>]
        /\ out' = formatNumber(amount, arg)
        /\ UNCHANGED <<ctx, weekdays, memo, now, stack, ret, started, cached>>

CallFormatCurrency ==
    \E amount \in Amounts, arg \in Optional(Objects(RawNumberKeys)) :
        /\ call' = [op |-> "formatCurrency", args |-> <<amount, arg>>]
        /\ out' = formatCurrency(amount, arg)
        /\ UNCHANGED <<ctx, weekdays, memo, now, stack, ret, started, cached>>

CallFormatPercentage ==
    \E amount \in Amounts, arg \in Optional(Objects(RawNumberKeys)) :
        /\ call' = [op |-> "formatPercentage", args |-> <<amount, arg>>]
        /\ out' = formatPercentage(amount, arg)
        /\ UNCHANGED <<ctx, weekdays, memo, now, stack, ret, started, cached>>

-----------------------------------------------------------------------------
(* weekStartDay *)

\* a JavaScript string is truthy unless it is undefined or empty
Truthy(v) == v \notin {Undefined, ""}

\* the Weekdays enumeration: Sunday = 0 .. Saturday = 6
Weekdays == 0 .. 6

Countries == {"US", "FR", "AE"}

\* the constants module is not part of the sources at hand: any table over
\* Countries and any default weekday
WeekdayConstants ==
    { [table |-> t, default |-> d] :
        t \in UNION { [C -> Weekdays] : C \in SUBSET Countries }, d \in Weekdays }

\* Map.prototype.get: the value, or nothing
MapGet(m, k) == IF k \in DOMAIN m THEN <<m[k]>> ELSE <<>>

\* found || fallback, for a number that may be missing: 0 is falsy
OrElse(found, fallback) ==
    IF found = <<>> \/ found[1] = 0 THEN fallback ELSE found[1]

Return(what, value) == [kind |-> "return", key |-> what, args |-> value]

weekStartDay(argCountry) ==
    LET country == IF Truthy(argCountry) THEN argCountry ELSE ctx.defaultCountry
    IN  IF ~Truthy(country)
        THEN Throw("MissingCountryError")
        ELSE Return("weekday",
                    OrElse(MapGet(weekdays.table, country), weekdays.default))

CallWeekStartDay ==
    \E argCountry \in {Undefined} \cup Countries \cup {"CA", "ZZ"} :
        /\ call' = [op |-> "weekStartDay", args |-> <<argCountry>>]
        /\ out' = weekStartDay(argCountry)
        /\ UNCHANGED <<ctx, weekdays, memo, now, stack, ret, started, cached>>

-----------------------------------------------------------------------------
(* translate *)

\* translate of ./utilities, called with (id, options, translations, locale)
translatePrimitive(id, normalizedOptions, translations, locale) ==
    [kind |-> "translate", key |-> id,
     args |-> [options |-> normalizedOptions,
               translations |-> translations,
               locale |-> locale]]

isTranslateOptions(object) == "scope" \in DOMAIN object

\* optionsOrReplacements and replacements are optional arguments; the
\* replacements entry of the normalized options is kept as the optional it was
translate(id, optionsOrReplacements, replacements) ==
    LET pseudolocalize == ctx.pseudolocalize
        normalizedOptions ==
            IF optionsOrReplacements = <<>>
            THEN [pseudotranslate |-> pseudolocalize]
            ELSE IF isTranslateOptions(optionsOrReplacements[1])
            THEN Spread(optionsOrReplacements[1],
                        [replacements |-> replacements,
                         pseudotranslate |-> pseudolocalize])
            ELSE [replacements |-> optionsOrReplacements,
                  pseudotranslate |-> pseudolocalize]
    IN  translatePrimitive(id, normalizedOptions, ctx.translations, ctx.locale)

TranslationIds == {"greeting", "items"}
Scopes == {"Page", "Page.Header"}

\* replacement dictionaries: placeholder name -> primitive value
ReplacementDictionaries ==
    Objects([name |-> {"Ann"}, count |-> {"2"}, scope |-> {"global"}])

\* The caller picks one of the declared overloads: (id), (id, options,
\* replacements?) or (id, replacements?); the overload is kept as the call's
\* fourth entry, the method itself sees the first three only.
CallTranslate ==
    \E id \in TranslationIds :
        \E a \in { <<"id", <<>>, <<>>>> }
                 \cup { <<"options", <<[scope |-> s]>>, r>> :
                          s \in Scopes, r \in Optional(ReplacementDictionaries) }
                 \cup { <<"replacements", <<d>>, <<>>>> : d \in ReplacementDictionaries } :
            /\ call' = [op |-> "translate", args |-> <<id, a[2], a[3], a[1]>>]
            /\ out' = translate(id, a[2], a[3])
            /\ UNCHANGED <<ctx, weekdays, memo, now, stack, ret, started, cached>>

-----------------------------------------------------------------------------
(* getCurrencySymbol, getCurrencySymbolLocalized *)

\* getCurrencySymbol of ./utilities, called with (locale, {currency}): a pure
\* lookup, whose result names the pair it was asked for
currencySymbolOf(locale, currency) == Return("symbol", <<locale, currency>>)

\* the resolver handed to @memoize, (currency, locale) => `${locale}${currency}`
resolver(currency, locale) == locale \o currency

\* the cache key of a getCurrencySymbolLocalized(locale, currency) call: the
\* decorator applies the resolver to the method's arguments in their order
MemoKey(locale, currency) == resolver(locale, currency)

\* the memoized getCurrencySymbolLocalized: a cached result, or the lookup cached
Memoized(locale, currency) ==
    LET key == MemoKey(locale, currency)
    IN  IF key \in DOMAIN memo
        THEN [result |-> memo[key], cache |-> memo, served |-> "hit"]
        ELSE LET result == currencySymbolOf(locale, currency)
             IN  [result |-> result,
                  cache |-> [k \in DOMAIN memo \cup {key} |->
                                IF k = key THEN result ELSE memo[k]],
                  served |-> "miss"]

CallGetCurrencySymbolLocalized ==
    \E locale \in {"en", "n", "fr"}, currency \in {"USD", "USDe", "EUR"} :
        LET m == Memoized(locale, currency)
        IN  /\ call' = [op |-> "getCurrencySymbolLocalized", args |-> <<locale, currency>>]
            /\ out' = m.result
            /\ memo' = m.cache
            /\ cached' = m.served
            /\ UNCHANGED <<ctx, weekdays, now, stack, ret, started>>

CallGetCurrencySymbol ==
    \E currencyCode \in {Undefined, "USD", "USDe", "EUR"} :
        LET currency == IF Truthy(currencyCode) THEN currencyCode ELSE ctx.defaultCurrency
            m == Memoized(ctx.locale, currency)
        IN  /\ call' = [op |-> "getCurrencySymbol", args |-> <<currencyCode>>]
            /\ IF currency = Undefined
               THEN /\ out' = Throw("MissingCurrencyCodeError")
                    /\ memo' = memo
                    /\ cached' = "untouched"
               ELSE /\ out' = m.result
                    /\ memo' = m.cache
                    /\ cached' = m.served
            /\ UNCHANGED <<ctx, weekdays, now, stack, ret, started>>

-----------------------------------------------------------------------------
(* Time *)

\* The clock counts whole seconds: one unit is 1000 ms, so that TimeUnit.Year
\* fits the model checker's integers.  Every TimeUnit value is the source's
\* divided by 1000.
Second == 1
Minute == Second * 60
Hour == Minute * 60
Day == Hour * 24
Week == Day * 7
Year == Day * 365

\* The local calendar.  Days are 24 hours long except day LongDay, a
\* daylight-saving day of 25 hours.
FirstDay == 2000
LongDay == FirstDay + 1
DayOf(t) ==
    IF t < LongDay * Day THEN t \div Day
    ELSE IF t < (LongDay + 1) * Day + Hour THEN LongDay
    ELSE (t - Hour) \div Day

\* isToday, isYesterday of @shopify/javascript-utilities/dates, `today` being
\* what the helper's own `new Date()` reads
isToday(date, today) == DayOf(date) = DayOf(today)
isYesterday(date, today) == DayOf(date) = DayOf(today) - 1

isLessThanOneMinuteAgo(date, today) == today - date < Minute
isLessThanOneHourAgo(date, today) == today - date < Hour
isLessThanOneDayAgo(date, today) == today - date < Day
isLessThanOneWeekAgo(date, today) == today - date < Week
isLessThanOneYearAgo(date, today) == today - date < Year

\* Math.floor((today - date) / resolution)
getDateDiff(resolution, date, today) == (today - date) \div resolution

Noon == FirstDay * Day + 12 * Hour
Midnight == LongDay * Day
LateLongDay == LongDay * Day + Day + Minute

\* the instants at which the model's clock may start
ClockStarts == {Noon - 1, Midnight - 1, LateLongDay}

\* how far the clock advances, in seconds
MaxAdvance == 2

Dates ==
    { Noon - 30, Noon - Minute, Noon - 30 * Minute, Noon - Hour, Noon - 4 * Hour,
      Noon + 10 * Minute, Noon - 13 * Hour, Noon - 5 * Day, Noon - Week,
      Noon - 200 * Day, Noon - Year, Noon - 3 * Year,
      Midnight - 30, Midnight - Minute, Midnight + 10 }

Tick ==
    /\ \E t \in ClockStarts : t <= now /\ now < t + MaxAdvance
    /\ now' = now + Second
    /\ UNCHANGED <<ctx, weekdays, memo, call, out, stack, ret, started, cached>>

-----------------------------------------------------------------------------
(* formatDate, humanizeDate, humanizeDateWithTime *)

\* the DateStyle enumeration and the dateStyle bundles of ./constants
DateStyle ==
    [Long |-> "Long", Short |-> "Short", Humanize |-> "Humanize",
     HumanizeWithTime |-> "HumanizeWithTime", Time |-> "Time"]

dateStyle(style) ==
    CASE style = DateStyle.Long ->
            [weekday |-> "long", month |-> "long", day |-> "2-digit", year |-> "numeric"]
      [] style = DateStyle.Short ->
            [month |-> "short", day |-> "numeric", year |-> "numeric"]
      [] style = DateStyle.Humanize ->
            [month |-> "long", day |-> "numeric", year |-> "numeric"]
      [] style = DateStyle.Time ->
            [hour |-> "2-digit", minute |-> "2-digit"]
      [] OTHER -> EmptyObject

\* the options a caller may pass to formatDate
DateKeys ==
    [style |-> { DateStyle[k] : k \in DOMAIN DateStyle } \cup {Undefined},
     timeZone |-> {Undefined, "America/Toronto"},
     month |-> {"2-digit"}]

\* the deepest the call stack may grow
MaxDepth == 5

Frame(fn, pc, options) ==
    [fn |-> fn, pc |-> pc, options |-> options, held |-> NoOut]

Top == stack[Len(stack)]

\* the date the formatDate call in progress was made with
TheDate == call.args[1]

\* the top frame moves to pc
Goto(pc) ==
    /\ stack' = [stack EXCEPT ![Len(stack)].pc = pc]
    /\ UNCHANGED <<ret, out>>

\* the top frame calls fn(TheDate, options) and will resume at pc
Invoke(fn, entry, options, pc) ==
    /\ Len(stack) < MaxDepth
    /\ stack' = Append([stack EXCEPT ![Len(stack)].pc = pc], Frame(fn, entry, options))
    /\ UNCHANGED <<ret, out>>

\* as Invoke, the top frame keeping the value it was last handed
InvokeHolding(fn, entry, options, pc) ==
    /\ Len(stack) < MaxDepth
    /\ stack' = Append([stack EXCEPT ![Len(stack)].pc = pc, ![Len(stack)].held = ret],
                       Frame(fn, entry, options))
    /\ UNCHANGED <<ret, out>>

\* the top frame returns value to its caller; the outermost frame's value is
\* the call's result
Deliver(value) ==
    /\ stack' = SubSeq(stack, 1, Len(stack) - 1)
    /\ ret' = value
    /\ out' = IF Len(stack) = 1 THEN value ELSE out

\* the top frame throws: nothing in the class catches, the call ends
Raise(error) ==
    /\ stack' = <<>>
    /\ ret' = ret
    /\ out' = Throw(error)

\* formatDate without a style: the platform formatter, given the default
\* timezone under the caller's options
formatDateUnstyled(date, formatOptions) ==
    DateTimeFormat(ctx.locale,
                   Spread([timeZone |-> ctx.defaultTimezone], formatOptions),
                   date)

\* the test for a missing timezone looking at the default timezone alone
TimezoneMissingByDefaultAlone(options) ==
    ctx.defaultTimezone = Undefined

\* formatDate's test for a missing timezone
TimezoneMissing(options) ==
    /\ ctx.defaultTimezone = Undefined
    /\ (options = <<>> \/ Get(options[1], "timeZone") = Undefined)

\* the recursion's options with the caller's entries written over the bundle's
NamedStyleOptionsUnderCaller(formatOptions, style) ==
    Spread(dateStyle(style), formatOptions)

\* the recursion's options with the style left in
NamedStyleOptionsKeepingStyle(formatOptions, style) ==
    Spread(Spread(formatOptions, [style |-> style]), dateStyle(style))

\* the options formatDate recurses with for a named style
NamedStyleOptions(formatOptions, style) == Spread(formatOptions, dateStyle(style))

CallFormatDate ==
    \E date \in Dates, options \in Optional(Objects(DateKeys)) :
        /\ stack = <<>>
        /\ call = NoCall
        /\ call' = [op |-> "formatDate", args |-> <<date, options>>]
        /\ stack' = <<Frame("formatDate", "entry", options)>>
        /\ out' = NoOut
        /\ ret' = NoOut
        /\ started' = now
        /\ UNCHANGED <<ctx, weekdays, memo, now, cached>>

FormatDate ==
    /\ stack # <<>>
    /\ Top.fn = "formatDate"
    /\ LET options == Top.options
           style == Get(OrEmpty(options), "style")
           formatOptions == Rest(OrEmpty(options), {"style"})
       IN  IF Top.pc = "return"
           THEN Deliver(ret)
           ELSE IF TimezoneMissing(options)
           THEN Raise("MissingTimezoneError")
           ELSE IF Truthy(style)
           THEN IF style = DateStyle.HumanizeWithTime
                THEN Invoke("humanizeDateWithTime", "isToday", <<formatOptions>>, "return")
                ELSE IF style = DateStyle.Humanize
                THEN Invoke("humanizeDate", "isToday", <<formatOptions>>, "return")
                ELSE Invoke("formatDate", "entry",
                            <<NamedStyleOptions(formatOptions, style)>>, "return")
           ELSE Deliver(formatDateUnstyled(TheDate, formatOptions))
    /\ UNCHANGED <<ctx, weekdays, memo, now, call, started, cached>>

\* the caller has the result of its formatDate call and the instance is idle again
TakeResult ==
    /\ stack = <<>>
    /\ call.op = "formatDate"
    /\ call' = NoCall
    /\ out' = NoOut
    /\ ret' = NoOut
    /\ started' = 0
    /\ UNCHANGED <<ctx, weekdays, memo, now, stack, cached>>

\* this.translate(id, replacements), as the humanizers call it
translateWith(id, replacements) == translate(id, <<replacements>>, <<>>)

HumanizeDate ==
    /\ stack # <<>>
    /\ Top.fn = "humanizeDate"
    /\ LET options == Top.options[1]
       IN  CASE Top.pc = "isToday" ->
                    IF isToday(TheDate, now)
                    THEN Deliver(translate("today", <<>>, <<>>))
                    ELSE Goto("isYesterday")
             [] Top.pc = "isYesterday" ->
                    IF isYesterday(TheDate, now)
                    THEN Deliver(translate("yesterday", <<>>, <<>>))
                    ELSE Invoke("formatDate", "entry",
                                <<Spread(options, dateStyle(DateStyle.Humanize))>>,
                                "return")
             [] Top.pc = "return" -> Deliver(ret)
    /\ started' = IF Top.pc = "isToday" THEN now ELSE started
    /\ UNCHANGED <<ctx, weekdays, memo, now, call, cached>>

TimeOptions(options) == Spread(options, dateStyle(DateStyle.Time))

HumanizeDateWithTime ==
    /\ stack # <<>>
    /\ Top.fn = "humanizeDateWithTime"
    /\ LET options == Top.options[1]
       IN  CASE Top.pc = "isToday" ->
                    IF isToday(TheDate, now)
                    THEN Goto("isLessThanOneMinuteAgo")
                    ELSE Goto("isYesterday")
             [] Top.pc = "isLessThanOneMinuteAgo" ->
                    IF isLessThanOneMinuteAgo(TheDate, now)
                    THEN Deliver(translate("lessThanOneMinuteAgo", <<>>, <<>>))
                    ELSE Goto("isLessThanOneHourAgo")
             [] Top.pc = "isLessThanOneHourAgo" ->
                    IF isLessThanOneHourAgo(TheDate, now)
                    THEN Goto("getDateDiff")
                    ELSE Goto("isLessThanOneDayAgo")
             [] Top.pc = "getDateDiff" ->
                    Deliver(translateWith("lessThanOneHourAgo",
                                          [minutes |-> getDateDiff(Minute, TheDate, now)]))
             [] Top.pc = "isLessThanOneDayAgo" ->
                    IF isLessThanOneDayAgo(TheDate, now)
                    THEN Invoke("formatDate", "entry", <<TimeOptions(options)>>, "return")
                    ELSE Deliver(translate("today", <<>>, <<>>))
             [] Top.pc = "isYesterday" ->
                    IF isYesterday(TheDate, now)
                    THEN Invoke("formatDate", "entry", <<TimeOptions(options)>>, "yesterdayAt")
                    ELSE Goto("isLessThanOneWeekAgo")
             [] Top.pc = "yesterdayAt" ->
                    Deliver(translateWith("yesterdayAt", [time |-> ret]))
             [] Top.pc = "isLessThanOneWeekAgo" ->
                    IF isLessThanOneWeekAgo(TheDate, now)
                    THEN Invoke("formatDate", "entry",
                                <<Spread(options, [weekday |-> "long"])>>, "dayOfWeek")
                    ELSE Goto("isLessThanOneYearAgo")
             [] Top.pc = "dayOfWeek" ->
                    InvokeHolding("formatDate", "entry", <<TimeOptions(options)>>,
                                  "dayOfWeekAt")
             [] Top.pc = "dayOfWeekAt" ->
                    Deliver(translateWith("dayOfWeekAt",
                                          [dayOfWeek |-> Top.held, time |-> ret]))
             [] Top.pc = "isLessThanOneYearAgo" ->
                    IF isLessThanOneYearAgo(TheDate, now)
                    THEN Invoke("formatDate", "entry",
                                <<Spread(options, [month |-> "short", day |-> "numeric"])>>,
                                "monthAndDay")
                    ELSE Invoke("formatDate", "entry",
                                <<Spread(options, [month |-> "short", day |-> "numeric",
                                                   year |-> "numeric"])>>,
                                "return")
             [] Top.pc = "monthAndDay" ->
                    InvokeHolding("formatDate", "entry", <<TimeOptions(options)>>,
                                  "monthAndDayAt")
             [] Top.pc = "monthAndDayAt" ->
                    Deliver(translateWith("monthAndDayAt",
                                          [date |-> Top.held, time |-> ret]))
             [] Top.pc = "return" -> Deliver(ret)
    /\ started' = IF Top.pc = "isToday" THEN now ELSE started
    /\ UNCHANGED <<ctx, weekdays, memo, now, call, cached>>

-----------------------------------------------------------------------------
(* Initial states *)

\* the constants module as far as the other operations are concerned
SomeWeekdayConstants ==
    [table |-> [c \in Countries |-> IF c = "AE" THEN 6 ELSE IF c = "US" THEN 0 ELSE 1],
     default |-> 0]

Idle ==
    /\ call = NoCall
    /\ out = NoOut
    /\ stack = <<>>
    /\ ret = NoOut
    /\ started = 0
    /\ cached = "none"
    /\ memo = EmptyObject

InitNumber ==
    /\ Idle
    /\ ctx \in { [BareContext EXCEPT !.locale = l, !.defaultCurrency = c] :
                    c \in {"USD", Undefined}, l \in Locales }
    /\ weekdays = SomeWeekdayConstants
    /\ now = Noon

NextNumber == CallFormatNumber \/ CallFormatCurrency \/ CallFormatPercentage

SpecNumber == InitNumber /\ [][NextNumber]_vars

InitWeek ==
    /\ Idle
    /\ ctx \in { [BareContext EXCEPT !.defaultCountry = c] : c \in {Undefined, "CA", "US"} }
    /\ weekdays \in WeekdayConstants
    /\ now = Noon

NextWeek == CallWeekStartDay

SpecWeek == InitWeek /\ [][NextWeek]_vars

InitTranslate ==
    /\ Idle
    /\ ctx \in { [BareContext EXCEPT !.locale = l, !.pseudolocalize = p, !.translations = t] :
                    l \in Locales, p \in {"false", "true", "accented"},
                    t \in TranslationLists }
    /\ weekdays = SomeWeekdayConstants
    /\ now = Noon

NextTranslate == CallTranslate

SpecTranslate == InitTranslate /\ [][NextTranslate]_vars

InitSymbol ==
    /\ Idle
    /\ ctx \in { [BareContext EXCEPT !.locale = l, !.defaultCurrency = c] :
                    l \in Locales, c \in {Undefined, "USD"} }
    /\ weekdays = SomeWeekdayConstants
    /\ now = Noon

NextSymbol == CallGetCurrencySymbol \/ CallGetCurrencySymbolLocalized

SpecSymbol == InitSymbol /\ [][NextSymbol]_vars

InitDate ==
    /\ Idle
    /\ ctx \in { [BareContext EXCEPT !.locale = l, !.defaultTimezone = z] :
                    l \in Locales, z \in {Undefined, "UTC"} }
    /\ weekdays = SomeWeekdayConstants
    /\ now \in ClockStarts

NextDate ==
    \/ CallFormatDate
    \/ FormatDate
    \/ HumanizeDate
    \/ HumanizeDateWithTime
    \/ TakeResult
    \/ Tick

SpecDate == InitDate /\ [][NextDate]_vars

\* A call in progress is a synchronous computation: it runs on to its end.
FairSpecDate ==
    /\ SpecDate
    /\ WF_vars(FormatDate)
    /\ WF_vars(HumanizeDate)
    /\ WF_vars(HumanizeDateWithTime)

\* The clock standing still while a call runs.
NextDateSteady ==
    \/ CallFormatDate
    \/ FormatDate
    \/ HumanizeDate
    \/ HumanizeDateWithTime
    \/ TakeResult
    \/ (stack = <<>> /\ Tick)

SpecDateSteady == InitDate /\ [][NextDateSteady]_vars

-----------------------------------------------------------------------------
(* Claims about formatNumber and its wrappers *)

IsThrow(o, error) == o.kind = "throw" /\ o.key = error

\* the object formatNumber is handed by the call being served
NumberArgument ==
    CASE call.op = "formatNumber" -> OrEmpty(call.args[2])
      [] call.op = "formatCurrency" -> Spread([as |-> "currency"], OrEmpty(call.args[2]))
      [] call.op = "formatPercentage" -> Spread([as |-> "percent"], OrEmpty(call.args[2]))

NumberCall == call.op \in {"formatNumber", "formatCurrency", "formatPercentage"}

CurrencyUnresolvable ==
    Get(NumberArgument, "currency") = Undefined /\ ctx.defaultCurrency = Undefined

\* C1 (as claimed): formatNumber with as = 'currency' fails with
\* MissingCurrencyCodeError exactly when neither options.currency nor the
\* default currency is present, and otherwise the platform number formatter is
\* invoked with style 'currency' and a non-null currency code.
C1_CurrencyStyledOrMissingCurrency ==
    (call.op = "formatNumber" /\ Get(NumberArgument, "as") = "currency") =>
        /\ IsThrow(out, "MissingCurrencyCodeError") <=> CurrencyUnresolvable
        /\ ~CurrencyUnresolvable =>
              /\ out.kind = "NumberFormat"
              /\ out.args.options.style = "currency"
              /\ out.args.options.currency # Undefined

\* The part of C1 the code keeps: the error is raised exactly when no currency
\* is resolvable, and otherwise the platform formatter is invoked.
C1_ErrorIffUnresolvable ==
    (call.op = "formatNumber" /\ Get(NumberArgument, "as") = "currency") =>
        /\ IsThrow(out, "MissingCurrencyCodeError") <=> CurrencyUnresolvable
        /\ ~CurrencyUnresolvable => out.kind = "NumberFormat"

\* C1's failing input: a default currency, and options {as: 'currency', currency: undefined}
C1_DefaultCurrencyDisplaced ==
    /\ call.op = "formatNumber"
    /\ ctx.defaultCurrency = "USD"
    /\ NumberArgument = [as |-> "currency", currency |-> Undefined]
    /\ out.kind = "NumberFormat"
    /\ out.args.options.currency = Undefined

RawNumberOptions == Rest(NumberArgument, {"as", "precision"})

OtherRawKeysUnchanged ==
    /\ DOMAIN out.args.options =
          DOMAIN RawNumberOptions \cup {"style", "maximumFractionDigits", "currency"}
    /\ \A k \in DOMAIN RawNumberOptions \ {"style", "maximumFractionDigits", "currency"} :
          out.args.options[k] = RawNumberOptions[k]

-----------------------------------------------------------------------------
(* Claims about weekStartDay *)

C8_ExceptFirstWeekday ==
    (call.op = "weekStartDay") =>
        LET country == IF call.args[1] # Undefined
                       THEN call.args[1] ELSE ctx.defaultCountry
        IN  /\ IsThrow(out, "MissingCountryError") <=> country = Undefined
            /\ country # Undefined =>
                  /\ out.kind = "return"
                  /\ out.args = IF country \in DOMAIN weekdays.table
                                   /\ weekdays.table[country] # 0
                                THEN weekdays.table[country]
                                ELSE weekdays.default

-----------------------------------------------------------------------------
(* Claims about translate *)

\* C10 (as claimed): the translate primitive receives the pseudolocalize flag,
\* the dictionaries in construction order and the locale; a replacement
\* dictionary passed as the second argument reaches it as the replacements,
\* entry for entry and with no scope set, whatever its placeholder names are;
\* a scope is applied only when the caller passed an options object.
C10_ReplacementsReachPrimitive ==
    (call.op = "translate") =>
        /\ out.kind = "translate"
        /\ out.key = call.args[1]
        /\ out.args.options.pseudotranslate = ctx.pseudolocalize
        /\ out.args.translations = ctx.translations
        /\ out.args.locale = ctx.locale
        /\ call.args[4] = "replacements" =>
              /\ "scope" \notin DOMAIN out.args.options
              /\ "replacements" \in DOMAIN out.args.options
              /\ out.args.options.replacements = call.args[2]
        /\ "scope" \in DOMAIN out.args.options => call.args[4] = "options"

\* C10 for every replacement dictionary without a placeholder named `scope`
C10_UnlessPlaceholderNamedScope ==
    (call.op = "translate") =>
        /\ out.kind = "translate"
        /\ out.key = call.args[1]
        /\ out.args.options.pseudotranslate = ctx.pseudolocalize
        /\ out.args.translations = ctx.translations
        /\ out.args.locale = ctx.locale
        /\ (call.args[4] = "replacements" /\ "scope" \notin DOMAIN call.args[2][1]) =>
              /\ "scope" \notin DOMAIN out.args.options
              /\ "replacements" \in DOMAIN out.args.options
              /\ out.args.options.replacements = call.args[2]
        /\ call.args[4] = "options" =>
              /\ out.args.options.scope = call.args[2][1].scope
              /\ out.args.options.replacements = call.args[3]
        /\ call.args[4] = "id" =>
              DOMAIN out.args.options = {"pseudotranslate"}

-----------------------------------------------------------------------------
(* Claims about the currency symbol *)

SymbolCall == call.op \in {"getCurrencySymbol", "getCurrencySymbolLocalized"}

\* the (locale, currency) pair the call being served asks the symbol of
AskedLocale ==
    IF call.op = "getCurrencySymbol" THEN ctx.locale ELSE call.args[1]
AskedCurrency ==
    IF call.op = "getCurrencySymbolLocalized" THEN call.args[2]
    ELSE IF call.args[1] # Undefined THEN call.args[1] ELSE ctx.defaultCurrency

\* C7 (as claimed): each call returns the symbol the data source gives for
\* its own (locale, currency) pair; the cache holds one entry per distinct
\* pair, so no entry is the result of a pair other than the one asking for it;
\* getCurrencySymbol fails with MissingCurrencyCodeError, without touching the
\* cache, exactly when neither the argument nor the default currency is present.
C7_SymbolOfOwnPair ==
    SymbolCall =>
        /\ IsThrow(out, "MissingCurrencyCodeError") <=> AskedCurrency = Undefined
        /\ IsThrow(out, "MissingCurrencyCodeError") => cached = "untouched"
        /\ AskedCurrency # Undefined =>
              /\ out.kind = "return"
              /\ out.args = <<AskedLocale, AskedCurrency>>
              /\ MemoKey(AskedLocale, AskedCurrency) \in DOMAIN memo
              /\ memo[MemoKey(AskedLocale, AskedCurrency)].args = <<AskedLocale, AskedCurrency>>

\* C7's error half, and the cache serving what it holds
C7_ErrorHalf ==
    SymbolCall =>
        /\ IsThrow(out, "MissingCurrencyCodeError") <=> AskedCurrency = Undefined
        /\ IsThrow(out, "MissingCurrencyCodeError") => cached = "untouched"
        /\ AskedCurrency # Undefined =>
              /\ out.kind = "return"
              /\ out = memo[MemoKey(AskedLocale, AskedCurrency)]

-----------------------------------------------------------------------------
(* Claims about formatDate *)

DateCall == call.op = "formatDate"

\* the formatDate call has ended and its result is in out
DateDone == DateCall /\ stack = <<>>

CallOptions == OrEmpty(call.args[2])
CallStyle == Get(CallOptions, "style")
CallFormatOptions == Rest(CallOptions, {"style"})

SameOutcome(a, b) == a.kind = b.kind /\ a.key = b.key /\ a.args = b.args

\* what formatDate(date, options) gives for options that carry no style
Unstyled(date, options) ==
    IF TimezoneMissing(<<options>>)
    THEN Throw("MissingTimezoneError")
    ELSE formatDateUnstyled(date, options)

\* The eight rules of the HumanizeWithTime style, read at the one instant t.
HumanizeWithTimeAt(date, options, t) ==
    LET elapsed == t - date
        today == DayOf(date) = DayOf(t)
        yesterday == DayOf(date) = DayOf(t) - 1
        time == Unstyled(date, Spread(options, dateStyle(DateStyle.Time)))
    IN  IF today /\ elapsed < Minute
        THEN translate("lessThanOneMinuteAgo", <<>>, <<>>)
        ELSE IF today /\ elapsed < Hour
        THEN translateWith("lessThanOneHourAgo", [minutes |-> elapsed \div Minute])
        ELSE IF today /\ elapsed < Day
        THEN time
        ELSE IF today
        THEN translate("today", <<>>, <<>>)
        ELSE IF yesterday
        THEN translateWith("yesterdayAt", [time |-> time])
        ELSE IF elapsed < Week
        THEN translateWith("dayOfWeekAt",
                           [dayOfWeek |-> Unstyled(date, Spread(options, [weekday |-> "long"])),
                            time |-> time])
        ELSE IF elapsed < 365 * Day
        THEN translateWith("monthAndDayAt",
                           [date |-> Unstyled(date, Spread(options,
                                                  [month |-> "short", day |-> "numeric"])),
                            time |-> time])
        ELSE Unstyled(date, Spread(options, [month |-> "short", day |-> "numeric",
                                             year |-> "numeric"]))

\* The three rules of the Humanize style, read at the one instant t.
HumanizeAt(date, options, t) ==
    IF DayOf(date) = DayOf(t) THEN translate("today", <<>>, <<>>)
    ELSE IF DayOf(date) = DayOf(t) - 1 THEN translate("yesterday", <<>>, <<>>)
    ELSE Unstyled(date, Spread(options, dateStyle(DateStyle.Humanize)))

HumanizedWithTime ==
    DateDone /\ CallStyle = DateStyle.HumanizeWithTime /\ out.kind # "throw"

\* C2 (as claimed): the HumanizeWithTime style picks its output by the eight
\* rules in order, first match wins, as a function of whether the date is
\* today, whether it is yesterday and of elapsed = now - date, the calendar
\* check first: a date of the previous calendar day yields yesterdayAt even
\* when it is less than an hour old.
C2_EightRulesAtTheFirstReading ==
    HumanizedWithTime =>
        SameOutcome(out, HumanizeWithTimeAt(TheDate, CallFormatOptions, started))

\* C3 (as claimed): within one humanizing call "now" is read once, so that the
\* outcome is the decision tree's at a single instant of the call even when the
\* clock advances while the call runs, and a lessThanOneHourAgo result carries
\* minutes between 1 and 59.
C3_OutcomeOfASingleInstant ==
    /\ HumanizedWithTime =>
          /\ \E t \in started .. now :
                SameOutcome(out, HumanizeWithTimeAt(TheDate, CallFormatOptions, t))
          /\ (out.kind = "translate" /\ out.key = "lessThanOneHourAgo") =>
                out.args.options.replacements[1].minutes \in 1 .. 59
    /\ (DateDone /\ CallStyle = DateStyle.Humanize /\ out.kind # "throw") =>
          \E t \in started .. now :
                SameOutcome(out, HumanizeAt(TheDate, CallFormatOptions, t))

TimezoneResolvable ==
    Get(CallOptions, "timeZone") # Undefined \/ ctx.defaultTimezone # Undefined

\* C4: formatDate fails with MissingTimezoneError exactly when neither
\* options.timeZone nor the default timezone is present, whatever the style;
\* the failure comes before any humanizing branch or translation is evaluated;
\* when both are present, the platform formatter is given options.timeZone.
C4_MissingTimezoneFirst ==
    DateCall =>
        /\ stack = <<>> => (IsThrow(out, "MissingTimezoneError") <=> ~TimezoneResolvable)
        /\ ~TimezoneResolvable =>
              /\ ret = NoOut
              /\ stack # <<>> => (Len(stack) = 1 /\ Top.fn = "formatDate" /\ Top.pc = "entry")
        /\ (Get(CallOptions, "timeZone") # Undefined /\ ctx.defaultTimezone # Undefined) =>
              \A r \in {ret, out} :
                  r.kind = "DateTimeFormat" =>
                      r.args.options.timeZone = CallOptions.timeZone

\* C4's case: a humanizing call on an instance without a default timezone and
\* without options.timeZone has ended
C4_HumanizingCallWithoutTimezone ==
    /\ DateDone
    /\ CallStyle = DateStyle.HumanizeWithTime
    /\ ~TimezoneResolvable
    /\ IsThrow(out, "MissingTimezoneError")

BundledStyles == {DateStyle.Long, DateStyle.Short, DateStyle.Humanize, DateStyle.Time}

\* C5 (as claimed): for every named preset S, formatDate(date, {style: S, ...O})
\* yields the result of formatDate(date, {...O, ...bundle(S)}).
C5_EveryPresetIsItsBundle ==
    (DateDone /\ CallStyle \in BundledStyles) =>
        SameOutcome(out, Unstyled(TheDate, Spread(CallFormatOptions, dateStyle(CallStyle))))

\* C5 (amended): the same for every named preset other than the humanizing
\* ones, and for Humanize when the date is neither today nor yesterday while
\* the call runs.
C5_PresetIsItsBundleUnlessHumanized ==
    (DateDone /\ CallStyle \in BundledStyles) =>
        \/ SameOutcome(out, Unstyled(TheDate,
                                     Spread(CallFormatOptions, dateStyle(CallStyle))))
        \/ /\ CallStyle = DateStyle.Humanize
           /\ \E t \in started .. now : DayOf(TheDate) \in {DayOf(t), DayOf(t) - 1}
           /\ out.kind = "translate"
           /\ out.key \in {"today", "yesterday"}

\* C5's case: a call with the Long preset and a raw month option of the
\* caller's has gone through the platform formatter
C5_LongPresetOverCallerMonth ==
    /\ DateDone
    /\ CallStyle = DateStyle.Long
    /\ "month" \in DOMAIN CallOptions
    /\ out.kind = "DateTimeFormat"
    /\ out.args.options.month = "long"

\* the formatDate invocations on the stack
FormatDateFrames == { i \in 1 .. Len(stack) : stack[i].fn = "formatDate" }

\* C9: every formatDate call terminates; the chain of nested formatDate
\* invocations is bounded, every nested invocation being made without a style.
C9_FormatDateTerminates ==
    /\ [](/\ Cardinality(FormatDateFrames) <= 2
          /\ \A i \in FormatDateFrames \ {1} : "style" \notin DOMAIN stack[i].options[1])
    /\ [](stack # <<>> => <>(stack = <<>>))

\* C9's case: a formatDate invocation nested in a humanizer nested in formatDate
C9_NestedInvocation ==
    /\ Len(stack) = 3
    /\ stack[1].fn = "formatDate"
    /\ stack[2].fn = "humanizeDateWithTime"
    /\ stack[3].fn = "formatDate"

====
